---- MODULE Spec2Model ----
(***************************************************************************)
(* Model of libs/image/src/ImageOps.cpp: the buffer composition functions  *)
(* of the image library (hstack, vstack, combineChannels, transpose,       *)
(* cropRegion, vectorsToColors, compare) over LinearImage buffers.         *)
(*                                                                         *)
(* A LinearImage is a record [width, height, channels, data]; data is the  *)
(* row-major float storage, element at C offset o being data[o + 1].       *)
(* Every function is modelled as an operator that runs the loops of the    *)
(* source over that storage and yields a call outcome: the status of the   *)
(* call, the returned image or integer, the number of pixel buffers the    *)
(* call had allocated when it ended, and the number of components read.    *)
(***************************************************************************)
EXTENDS Integers, Sequences, FiniteSets, TLC

VARIABLES pc, op, images, region, epsilon, ret

vars == <<pc, op, images, region, epsilon, ret>>

----------------------------------------------------------------------------
(* Bounds of the model.                                                    *)

\* Largest width and height of a generated input image.
MaxDim == 2

\* Largest number of images handed to hstack, vstack or combineChannels.
MaxCount == 3

\* Largest number of components of an image handed to compare.
MaxCmpLen == 3

----------------------------------------------------------------------------
(* uint32_t arithmetic. TLC's integers are 32 bits wide and signed, so a   *)
(* uint32_t of 2^31 or more is held as its two's complement reading:       *)
(* 2^32 - k is held as -k. Sums and products of the bounded inputs stay    *)
(* far below 2^31 and are held as they are; only a subtraction can wrap.   *)

\* a - b in uint32_t: below zero it wraps to 2^32 - (b - a), held as a - b.
Sub32(a, b) == a - b

\* Whether the uint32_t x is 2^31 or more (it came from a wrapped subtraction).
Wrapped32(x) == x < 0

----------------------------------------------------------------------------
(* LinearImage values.                                                     *)

\* Value of a storage cell that no copy has written yet.
Unset == -1

\* LinearImage(width, height, channels): a fresh buffer of that size.
LinearImage(width, height, channels) ==
    [width |-> width, height |-> height, channels |-> channels,
     data |-> [i \in 1..(width * height * channels) |-> Unset]]

\* The default-constructed LinearImage (no storage).
NoImage == [width |-> 0, height |-> 0, channels |-> 0, data |-> <<>>]

\* memcpy(dst + dstOff, src + srcOff, n * sizeof(float)) on float storage.
memcpy(dst, dstOff, src, srcOff, n) ==
    [i \in 1..Len(dst) |->
        IF i > dstOff /\ i <= dstOff + n THEN src[srcOff + (i - dstOff)] ELSE dst[i]]

\* Offset of image.get(column, row) from image.get().
getAt(image, column, row) == (image.width * row + column) * image.channels

----------------------------------------------------------------------------
(* Call outcomes.                                                          *)

\* The call returned `image`; `allocs` pixel buffers were allocated.
Returned(image, allocs) ==
    [status |-> "ok", msg |-> "", image |-> image, value |-> 0,
     allocs |-> allocs, reads |-> 0]

\* ASSERT_PRECONDITION failed with `msg` after `allocs` buffers were allocated.
Panic(msg, allocs) ==
    [status |-> "panic", msg |-> msg, image |-> NoImage, value |-> 0,
     allocs |-> allocs, reads |-> 0]

\* The call returned the integer `value` after reading `reads` components.
ReturnedInt(value, reads) ==
    [status |-> "ok", msg |-> "", image |-> NoImage, value |-> value,
     allocs |-> 0, reads |-> reads]

\* The call read outside a source buffer: undefined behaviour, `how` it ended.
Undefined(how, allocs) ==
    [status |-> how, msg |-> "", image |-> NoImage, value |-> 0,
     allocs |-> allocs, reads |-> 0]

NoRet == [status |-> "none", msg |-> "", image |-> NoImage, value |-> 0,
          allocs |-> 0, reads |-> 0]

----------------------------------------------------------------------------
(* transpose                                                               *)

\* A faulty transposeLoop: the target offset uses the source's width as the
\* target's row length, which is right for square images only. C2 excludes it.
RECURSIVE transposeLoopSquareOnly(_, _, _)
transposeLoopSquareOnly(image, n, target) ==
    IF n < image.width * image.height
    THEN LET i == n \div image.width
             j == n % image.width
             src == image.channels * n
             dst == image.channels * (image.width * j + i)
         IN transposeLoopSquareOnly(image, n + 1,
                          memcpy(target, dst, image.data, src, image.channels))
    ELSE target

\* The loop of transpose from pixel n on: pixel n of the source goes to
\* pixel height * j + i of the target.
RECURSIVE transposeLoop(_, _, _)
transposeLoop(image, n, target) ==
    IF n < image.width * image.height
    THEN LET i == n \div image.width
             j == n % image.width
             src == image.channels * n
             dst == image.channels * (image.height * j + i)
         IN transposeLoop(image, n + 1,
                          memcpy(target, dst, image.data, src, image.channels))
    ELSE target

transposeImage(image) ==
    LET result == LinearImage(image.height, image.width, image.channels)
    IN [result EXCEPT !.data = transposeLoop(image, 0, result.data)]

transpose(image) == Returned(transposeImage(image), 1)

----------------------------------------------------------------------------
(* hstack                                                                  *)

\* The first loop of hstack from image c on: sums the widths and checks the
\* heights and channel counts against the first non-zero ones seen.
RECURSIVE hstackSize(_, _, _)
hstackSize(first, c, acc) ==
    IF c > Len(first) THEN acc
    ELSE LET img == first[c]
             width == acc.width + img.width
         IN IF acc.height # 0 /\ acc.height # img.height
            THEN [acc EXCEPT !.msg = "Inconsistent heights."]
            ELSE IF acc.nchannels # 0 /\ acc.nchannels # img.channels
            THEN [acc EXCEPT !.msg = "Inconsistent channels."]
            ELSE hstackSize(first, c + 1,
                    [width |-> width,
                     height |-> IF acc.height = 0 THEN img.height ELSE acc.height,
                     nchannels |-> IF acc.nchannels = 0 THEN img.channels
                                   ELSE acc.nchannels,
                     msg |-> ""])

\* A faulty hstackCopy: the loops are nested the other way round, so each
\* image is copied whole before the next one. C1 excludes it.
RECURSIVE hstackCopyImageMajor(_, _, _, _, _)
hstackCopyImageMajor(first, size, k, target, dst) ==
    IF k < size.height * Len(first)
    THEN LET row == k % size.height
             c == (k \div size.height) + 1
             img == first[c]
             swidth == img.width
             src == row * swidth * size.nchannels
             rest == hstackCopyImageMajor(first, size, k + 1,
                       memcpy(target, dst, img.data, src, swidth * size.nchannels),
                       dst + swidth * size.nchannels)
         IN [rest EXCEPT !.copies =
                <<[image |-> c, src |-> src, dst |-> dst,
                   n |-> swidth * size.nchannels]>> \o @]
    ELSE [data |-> target, dst |-> dst, copies |-> <<>>]

\* A faulty hstackCopy: dst advances by the width of the row copied, not by
\* its width times the channel count. C13 excludes it.
RECURSIVE hstackCopyPixelStride(_, _, _, _, _)
hstackCopyPixelStride(first, size, k, target, dst) ==
    IF k < size.height * Len(first)
    THEN LET row == k \div Len(first)
             c == (k % Len(first)) + 1
             img == first[c]
             swidth == img.width
             src == row * swidth * size.nchannels
             rest == hstackCopyPixelStride(first, size, k + 1,
                       memcpy(target, dst, img.data, src, swidth * size.nchannels),
                       dst + swidth)
         IN [rest EXCEPT !.copies =
                <<[image |-> c, src |-> src, dst |-> dst,
                   n |-> swidth * size.nchannels]>> \o @]
    ELSE [data |-> target, dst |-> dst, copies |-> <<>>]

\* The copy loops of hstack, flattened: step k copies row k \div count of
\* image k % count to dst and advances dst. Yields the filled storage, the
\* final dst and the copies made in order: for each memcpy the image read,
\* the offsets of src and dst in their storage and the number of floats.
RECURSIVE hstackCopy(_, _, _, _, _)
hstackCopy(first, size, k, target, dst) ==
    IF k < size.height * Len(first)
    THEN LET row == k \div Len(first)
             c == (k % Len(first)) + 1
             img == first[c]
             swidth == img.width
             src == row * swidth * size.nchannels
             rest == hstackCopy(first, size, k + 1,
                       memcpy(target, dst, img.data, src, swidth * size.nchannels),
                       dst + swidth * size.nchannels)
         IN [rest EXCEPT !.copies =
                <<[image |-> c, src |-> src, dst |-> dst,
                   n |-> swidth * size.nchannels]>> \o @]
    ELSE [data |-> target, dst |-> dst, copies |-> <<>>]

\* A faulty hstack: the check for an empty sequence is missing. C9 excludes it.
hstackUncheckedCount(first) ==
    LET size == hstackSize(first, 1,
                    [width |-> 0, height |-> 0, nchannels |-> 0, msg |-> ""])
    IN IF size.msg # "" THEN Panic(size.msg, 0)
       ELSE LET result == LinearImage(size.width, size.height, size.nchannels)
                filled == hstackCopy(first, size, 0, result.data, 0)
            IN Returned([result EXCEPT !.data = filled.data], 1)

hstack(first) ==
    IF ~(Len(first) > 0)
    THEN Panic("Must supply one or more images for stacking.", 0)
    ELSE LET size == hstackSize(first, 1,
                        [width |-> 0, height |-> 0, nchannels |-> 0, msg |-> ""])
         IN IF size.msg # "" THEN Panic(size.msg, 0)
            ELSE LET result == LinearImage(size.width, size.height, size.nchannels)
                     filled == hstackCopy(first, size, 0, result.data, 0)
                 IN Returned([result EXCEPT !.data = filled.data], 1)

----------------------------------------------------------------------------
(* vstack                                                                  *)

\* The number of components of the first n images of a list: what the
\* transposes of those images have copied.
RECURSIVE Components(_, _)
Components(list, n) ==
    IF n = 0 THEN 0 ELSE Components(list, n - 1) + Len(list[n].data)

\* A faulty vstack: the transposed inputs are stacked in reverse. C3 excludes it.
vstackReversed(first) ==
    IF ~(Len(first) > 0)
    THEN Panic("Must supply one or more images for stacking.", 0)
    ELSE LET flipped == [c \in 1..Len(first) |->
                            transpose(first[Len(first) + 1 - c]).image]
             stacked == hstack(flipped)
         IN IF stacked.status # "ok"
            THEN [Panic(stacked.msg, Len(first) + stacked.allocs)
                    EXCEPT !.reads = Components(first, Len(first))]
            ELSE Returned(transpose(stacked.image).image,
                          Len(first) + stacked.allocs + 1)

\* Transposes every input, hstacks the transposed images and transposes the
\* result. A failed precondition of the inner hstack ends the call with the
\* buffers of the transposed inputs already allocated and filled: the
\* outcome counts them, and the components copied into them.
vstack(first) ==
    IF ~(Len(first) > 0)
    THEN Panic("Must supply one or more images for stacking.", 0)
    ELSE LET flipped == [c \in 1..Len(first) |-> transpose(first[c]).image]
             stacked == hstack(flipped)
         IN IF stacked.status # "ok"
            THEN [Panic(stacked.msg, Len(first) + stacked.allocs)
                    EXCEPT !.reads = Components(first, Len(first))]
            ELSE Returned(transpose(stacked.image).image,
                          Len(first) + stacked.allocs + 1)

----------------------------------------------------------------------------
(* combineChannels                                                         *)

\* A faulty combineCheck: the channel count of the first plane only is
\* checked. C10 excludes it.
RECURSIVE combineCheckFirstChannels(_, _, _, _)
combineCheckFirstChannels(img, c, width, height) ==
    IF c > Len(img) THEN ""
    ELSE LET plane == img[c]
         IN IF ~(plane.width = width) THEN "Planes must all have same width."
            ELSE IF ~(plane.height = height) THEN "Planes must all have same height."
            ELSE IF c = 1 /\ ~(plane.channels = 1) THEN "Planes must be single channel."
            ELSE combineCheckFirstChannels(img, c + 1, width, height)

\* The checking loop of combineChannels from plane c on: the message of the
\* first precondition that fails, "" when none does.
RECURSIVE combineCheck(_, _, _, _)
combineCheck(img, c, width, height) ==
    IF c > Len(img) THEN ""
    ELSE LET plane == img[c]
         IN IF ~(plane.width = width) THEN "Planes must all have same width."
            ELSE IF ~(plane.height = height) THEN "Planes must all have same height."
            ELSE IF ~(plane.channels = 1) THEN "Planes must be single channel."
            ELSE combineCheck(img, c + 1, width, height)

\* A faulty combineLoop: sindex is never advanced. C5 excludes it.
RECURSIVE combineLoopStuck(_, _, _, _, _)
combineLoopStuck(img, total, sindex, dindex, dst) ==
    IF dindex < total
    THEN combineLoopStuck(img, total, sindex, dindex + Len(img),
            [t \in 1..Len(dst) |->
                IF t > dindex /\ t <= dindex + Len(img)
                THEN img[t - dindex].data[sindex + 1]
                ELSE dst[t]])
    ELSE dst

\* The while loop of combineChannels: one pass of its inner for loop writes
\* src[sindex] of plane c to dst[dindex + c] for every plane c in order.
RECURSIVE combineLoop(_, _, _, _, _)
combineLoop(img, total, sindex, dindex, dst) ==
    IF dindex < total
    THEN combineLoop(img, total, sindex + 1, dindex + Len(img),
            [t \in 1..Len(dst) |->
                IF t > dindex /\ t <= dindex + Len(img)
                THEN img[t - dindex].data[sindex + 1]
                ELSE dst[t]])
    ELSE dst

combineChannels(img) ==
    IF ~(Len(img) > 0)
    THEN Panic("Must supply one or more image planes for combining.", 0)
    ELSE LET width == img[1].width
             height == img[1].height
             msg == combineCheck(img, 1, width, height)
         IN IF msg # "" THEN Panic(msg, 0)
            ELSE LET result == LinearImage(width, height, Len(img))
                 IN Returned([result EXCEPT !.data =
                                combineLoop(img, width * height * Len(img), 0, 0,
                                            result.data)], 1)

----------------------------------------------------------------------------
(* vectorsToColors                                                         *)

\* Component values are held in fixed point: the float 1.0f is held as One,
\* so that 0.5f * (v + 1) of -1, 0 and 1 is exact.
One == 2

\* Channel count that vectorsToColors requires.
VectorChannels == 3

vectorsToColors(image) ==
    IF ~(image.channels = VectorChannels)
    THEN Panic("Must be a 3-channel image.", 0)
    ELSE LET result == LinearImage(image.width, image.height, VectorChannels)
         IN Returned([result EXCEPT !.data =
                        [t \in 1..Len(result.data) |-> (image.data[t] + One) \div 2]],
                     1)

----------------------------------------------------------------------------
(* cropRegion                                                              *)

\* A faulty cropLoop: the source is never advanced, so every row of the
\* result is the region's first row. C4 excludes it.
RECURSIVE cropLoopFirstRow(_, _, _, _, _, _)
cropLoopFirstRow(image, size, row, target, tOff, sOff) ==
    IF row < size.height
    THEN cropLoopFirstRow(image, size, row + 1,
                  memcpy(target, tOff, image.data, sOff, size.width * size.channels),
                  tOff + size.width * size.channels,
                  sOff)
    ELSE target

\* The row loop of cropRegion from `row` on: copies width * channels floats
\* from source to target and advances both.
RECURSIVE cropLoop(_, _, _, _, _, _)
cropLoop(image, size, row, target, tOff, sOff) ==
    IF row < size.height
    THEN cropLoop(image, size, row + 1,
                  memcpy(target, tOff, image.data, sOff, size.width * size.channels),
                  tOff + size.width * size.channels,
                  sOff + image.width * size.channels)
    ELSE target

\* The outcomes of cropRegion. The source does not check the bounds. With a
\* result of no components nothing is read. Otherwise, when every row copy
\* reads inside the source storage the result is determined (the caller's
\* precondition is then not needed for memory safety); when some copy reads
\* outside it, the behaviour is undefined: the call crashes or returns
\* whatever it read.
cropRegion(image, left, top, right, bottom) ==
    LET width == Sub32(right, left)
        height == Sub32(bottom, top)
        channels == image.channels
        size == [width |-> width, height |-> height, channels |-> channels]
        source == getAt(image, left, top)
    IN IF width = 0 \/ height = 0
       THEN {Returned([width |-> width, height |-> height, channels |-> channels,
                       data |-> <<>>], 1)}
       ELSE IF /\ ~Wrapped32(width)
               /\ ~Wrapped32(height)
               /\ source + (height - 1) * image.width * channels + width * channels
                    <= Len(image.data)
       THEN LET result == LinearImage(width, height, channels)
            IN {Returned([result EXCEPT !.data =
                            cropLoop(image, size, 0, result.data, 0, source)], 1)}
       ELSE {Undefined("crash", 1), Undefined("garbage", 1)}

----------------------------------------------------------------------------
(* compare                                                                 *)

\* The comparator handed to std::lexicographical_compare.
withinEpsilon(x, y, eps) == x >= y - eps /\ x <= y + eps

\* std::lexicographical_compare(a, a + n, b, b + n, comp) from element i on:
\* true at the first i with comp(a[i], b[i]), false at the first i with
\* comp(b[i], a[i]), and at the end true iff only the first range is used up.
\* (The comparator is no strict ordering; the library's loop is run as it is.)
RECURSIVE lexicographicalCompare(_, _, _, _)
lexicographicalCompare(adata, bdata, i, eps) ==
    IF i > Len(adata) \/ i > Len(bdata)
    THEN [less |-> i > Len(adata) /\ i <= Len(bdata), reads |-> i - 1]
    ELSE IF withinEpsilon(adata[i], bdata[i], eps) THEN [less |-> TRUE, reads |-> i]
    ELSE IF withinEpsilon(bdata[i], adata[i], eps) THEN [less |-> FALSE, reads |-> i]
    ELSE lexicographicalCompare(adata, bdata, i + 1, eps)

\* The value compare returns when the shapes differ.
ShapeMismatch == -1

\* A faulty compare: the shape check leaves out the channel count. C8
\* excludes it.
compareUncheckedChannels(a, b, eps) ==
    IF b.width # a.width \/ b.height # a.height
    THEN ReturnedInt(ShapeMismatch, 0)
    ELSE LET r == lexicographicalCompare(a.data, b.data, 1, eps)
         IN ReturnedInt(IF r.less THEN 1 ELSE 0, r.reads)

compare(a, b, eps) ==
    IF b.width # a.width \/ b.height # a.height \/ b.channels # a.channels
    THEN ReturnedInt(ShapeMismatch, 0)
    ELSE LET r == lexicographicalCompare(a.data, b.data, 1, eps)
         IN ReturnedInt(IF r.less THEN 1 ELSE 0, r.reads)

----------------------------------------------------------------------------
(* Inputs.                                                                 *)

Dims == 1..MaxDim

\* Channel counts of the generated input images: single- and multi-channel.
ChannelCounts == {1, 2}

\* Distance between the component values of consecutive argument images.
TagStride == (MaxDim + 1) * (MaxDim + 1) * 2

\* The image of the given shape whose components are tag, tag + 1, ... in
\* storage order: every component of every argument has its own value.
TaggedImage(width, height, channels, tag) ==
    [width |-> width, height |-> height, channels |-> channels,
     data |-> [i \in 1..(width * height * channels) |-> tag + (i - 1)]]

Shapes == [width : Dims, height : Dims, channels : ChannelCounts]

\* Shapes of the argument lists of n images.
ShapeLists(n) == [1..n -> Shapes]

\* The argument list of the given shapes, argument k tagged (k - 1) * TagStride.
ImageList(s) ==
    [k \in 1..Len(s) |-> TaggedImage(s[k].width, s[k].height, s[k].channels,
                                      (k - 1) * TagStride)]

SingleImages == { TaggedImage(s.width, s.height, s.channels, 0) : s \in Shapes }

\* Plane k (from 0) of an image: the single-channel image of the k-th
\* component of every pixel.
extractChannel(image, k) ==
    [width |-> image.width, height |-> image.height, channels |-> 1,
     data |-> [p \in 1..(image.width * image.height) |->
                  image.data[(p - 1) * image.channels + k + 1]]]

\* An image split into its planes, in channel order.
splitChannels(image) == [c \in 1..image.channels |-> extractChannel(image, c - 1)]

\* Arguments of vectorsToColors: vector components -1, 0, 1 in turn, with
\* the required channel count or another.
VectorImages ==
    { [width |-> w, height |-> h, channels |-> c,
       data |-> [i \in 1..(w * h * c) |-> ((i % 3) - 1) * One]] :
        w \in Dims, h \in Dims, c \in ChannelCounts \cup {VectorChannels} }

\* Arguments of cropRegion: images of up to MaxDim + 1 columns and rows, so
\* that a region of several rows can lie off the top and left edges, and
\* bounds inside and outside the image, in either order.
CropImages ==
    { TaggedImage(w, h, c, 0) :
        w \in 1..(MaxDim + 1), h \in 1..(MaxDim + 1), c \in ChannelCounts }

Bounds == 0..(MaxDim + 1)

\* Component values and tolerances handed to compare.
CmpValues == {0, 1, 2}
Epsilons == {0, 1}

\* Arguments of compare: every image of at most MaxCmpLen components over
\* CmpValues.
CmpImages ==
    UNION { { [width |-> s.width, height |-> s.height, channels |-> s.channels,
               data |-> d] :
                d \in [1..(s.width * s.height * s.channels) -> CmpValues] } :
            s \in { t \in Shapes : t.width * t.height * t.channels <= MaxCmpLen } }

----------------------------------------------------------------------------
(* The state machine: a caller makes one call at a time.                   *)

Init ==
    /\ pc = "idle"
    /\ op = "none"
    /\ images = <<>>
    /\ region = <<0, 0, 0, 0>>
    /\ epsilon = 0
    /\ ret = NoRet

CallTranspose ==
    /\ pc = "idle"
    /\ \E image \in SingleImages :
        /\ images' = <<image>>
        /\ ret' = transpose(image)
    /\ op' = "transpose"
    /\ pc' = "returned"
    /\ UNCHANGED <<region, epsilon>>

CallHstack ==
    /\ pc = "idle"
    /\ \E n \in 0..MaxCount : \E s \in ShapeLists(n) :
        LET first == ImageList(s)
        IN /\ images' = first
           /\ ret' = hstack(first)
    /\ op' = "hstack"
    /\ pc' = "returned"
    /\ UNCHANGED <<region, epsilon>>

CallVstack ==
    /\ pc = "idle"
    /\ \E n \in 0..MaxCount : \E s \in ShapeLists(n) :
        LET first == ImageList(s)
        IN /\ images' = first
           /\ ret' = vstack(first)
    /\ op' = "vstack"
    /\ pc' = "returned"
    /\ UNCHANGED <<region, epsilon>>

CallCombineChannels ==
    /\ pc = "idle"
    /\ \/ \E n \in 0..MaxCount : \E s \in ShapeLists(n) :
            LET img == ImageList(s)
            IN /\ images' = img
               /\ ret' = combineChannels(img)
       \/ \E image \in SingleImages :
            LET img == splitChannels(image)
            IN /\ images' = img
               /\ ret' = combineChannels(img)
    /\ op' = "combineChannels"
    /\ pc' = "returned"
    /\ UNCHANGED <<region, epsilon>>

CallVectorsToColors ==
    /\ pc = "idle"
    /\ \E image \in VectorImages :
        /\ images' = <<image>>
        /\ ret' = vectorsToColors(image)
    /\ op' = "vectorsToColors"
    /\ pc' = "returned"
    /\ UNCHANGED <<region, epsilon>>

CallCropRegion ==
    /\ pc = "idle"
    /\ \E image \in CropImages :
       \E left \in Bounds, top \in Bounds, right \in Bounds, bottom \in Bounds :
        /\ images' = <<image>>
        /\ region' = <<left, top, right, bottom>>
        /\ ret' \in cropRegion(image, left, top, right, bottom)
    /\ op' = "cropRegion"
    /\ pc' = "returned"
    /\ UNCHANGED epsilon

CallCompare ==
    /\ pc = "idle"
    /\ \E a \in CmpImages, b \in CmpImages, eps \in Epsilons :
        /\ images' = <<a, b>>
        /\ epsilon' = eps
        /\ ret' = compare(a, b, eps)
    /\ op' = "compare"
    /\ pc' = "returned"
    /\ UNCHANGED region

\* The caller drops the arguments and the result.
Finish ==
    /\ pc = "returned"
    /\ pc' = "idle"
    /\ op' = "none"
    /\ images' = <<>>
    /\ region' = <<0, 0, 0, 0>>
    /\ epsilon' = 0
    /\ ret' = NoRet

Next ==
    \/ CallTranspose
    \/ CallHstack
    \/ CallVstack
    \/ CallCombineChannels
    \/ CallVectorsToColors
    \/ CallCropRegion
    \/ CallCompare
    \/ Finish

Spec == Init /\ [][Next]_vars

----------------------------------------------------------------------------
(* Vocabulary of the properties.                                           *)

\* The value of pixel (row, col), channel k of an image (all from 0).
At(image, row, col, k) == image.data[getAt(image, col, row) + k + 1]

\* Whether the storage of an image has exactly width * height * channels cells.
WellSized(image) == Len(image.data) = image.width * image.height * image.channels

\* w_1 + ... + w_n and h_1 + ... + h_n of the first n images of a list.
RECURSIVE SumWidths(_, _)
SumWidths(list, n) == IF n = 0 THEN 0 ELSE SumWidths(list, n - 1) + list[n].width

RECURSIVE SumHeights(_, _)
SumHeights(list, n) == IF n = 0 THEN 0 ELSE SumHeights(list, n - 1) + list[n].height

SameHeightAndChannels(list) ==
    \A i \in 1..Len(list) :
        list[i].height = list[1].height /\ list[i].channels = list[1].channels

SameWidthAndChannels(list) ==
    \A i \in 1..Len(list) :
        list[i].width = list[1].width /\ list[i].channels = list[1].channels

Called(name) == pc = "returned" /\ op = name

----------------------------------------------------------------------------
(* C1: hstack of n >= 1 images of one height h and channel count c returns *)
(* an image of height h, channel count c and width w_1 + ... + w_n in      *)
(* which input i lies at columns w_1 + ... + w_(i-1) onwards, pixel for    *)
(* pixel and channel for channel.                                          *)
C1_HstackComposes ==
    (Called("hstack") /\ Len(images) >= 1 /\ SameHeightAndChannels(images)) =>
        /\ ret.status = "ok"
        /\ ret.image.height = images[1].height
        /\ ret.image.channels = images[1].channels
        /\ ret.image.width = SumWidths(images, Len(images))
        /\ WellSized(ret.image)
        /\ \A i \in 1..Len(images) :
           \A r \in 0..(images[i].height - 1), x \in 0..(images[i].width - 1),
              k \in 0..(images[i].channels - 1) :
                At(ret.image, r, SumWidths(images, i - 1) + x, k)
                    = At(images[i], r, x, k)

\* Three images of different widths, two rows and two channels were stacked.
C1_Witness ==
    /\ Called("hstack")
    /\ Len(images) = 3
    /\ SameHeightAndChannels(images)
    /\ images[1].height = 2 /\ images[1].channels = 2
    /\ images[1].width # images[2].width
    /\ images[2].width # images[3].width
    /\ ret.status = "ok"

----------------------------------------------------------------------------
(* C2: transpose of a W x H image with C channels, square or not, returns *)
(* an H x W image with C channels whose pixel (row j, column i) equals the *)
(* input's pixel (row i, column j) in every channel.                       *)
C2_TransposeSwapsAxes ==
    Called("transpose") =>
        /\ ret.status = "ok"
        /\ ret.image.width = images[1].height
        /\ ret.image.height = images[1].width
        /\ ret.image.channels = images[1].channels
        /\ WellSized(ret.image)
        /\ \A i \in 0..(images[1].height - 1), j \in 0..(images[1].width - 1),
              k \in 0..(images[1].channels - 1) :
                At(ret.image, j, i, k) = At(images[1], i, j, k)

\* A non-square image of several channels was transposed.
C2_Witness ==
    /\ Called("transpose")
    /\ images[1].width = 2 /\ images[1].height = 1 /\ images[1].channels = 2
    /\ ret.status = "ok"
    /\ ret.image.width = 1 /\ ret.image.height = 2

----------------------------------------------------------------------------
(* C3: vstack of n >= 1 images of one width w and channel count c returns  *)
(* an image of width w, channel count c and height h_1 + ... + h_n in      *)
(* which input i lies at rows h_1 + ... + h_(i-1) onwards: the inputs      *)
(* appear top to bottom in sequence order.                                 *)
C3_VstackComposes ==
    (Called("vstack") /\ Len(images) >= 1 /\ SameWidthAndChannels(images)) =>
        /\ ret.status = "ok"
        /\ ret.image.width = images[1].width
        /\ ret.image.channels = images[1].channels
        /\ ret.image.height = SumHeights(images, Len(images))
        /\ WellSized(ret.image)
        /\ \A i \in 1..Len(images) :
           \A y \in 0..(images[i].height - 1), x \in 0..(images[i].width - 1),
              k \in 0..(images[i].channels - 1) :
                At(ret.image, SumHeights(images, i - 1) + y, x, k)
                    = At(images[i], y, x, k)

\* Three images of different heights, two columns and two channels were stacked.
C3_Witness ==
    /\ Called("vstack")
    /\ Len(images) = 3
    /\ SameWidthAndChannels(images)
    /\ images[1].width = 2 /\ images[1].channels = 2
    /\ images[1].height # images[2].height
    /\ images[2].height # images[3].height
    /\ ret.status = "ok"

----------------------------------------------------------------------------
(* C4: cropRegion with 0 <= left < right <= sourceWidth and 0 <= top <     *)
(* bottom <= sourceHeight returns an image of width right - left, height   *)
(* bottom - top and the source's channel count whose pixel (row, col)      *)
(* equals the source's pixel (row + top, col + left) in every channel.     *)
ValidRegion ==
    /\ 0 <= region[1] /\ region[1] < region[3] /\ region[3] <= images[1].width
    /\ 0 <= region[2] /\ region[2] < region[4] /\ region[4] <= images[1].height

C4_CropContainsRegion ==
    (Called("cropRegion") /\ ValidRegion) =>
        /\ ret.status = "ok"
        /\ ret.image.width = region[3] - region[1]
        /\ ret.image.height = region[4] - region[2]
        /\ ret.image.channels = images[1].channels
        /\ WellSized(ret.image)
        /\ \A row \in 0..(region[4] - region[2] - 1),
              col \in 0..(region[3] - region[1] - 1),
              k \in 0..(images[1].channels - 1) :
                At(ret.image, row, col, k)
                    = At(images[1], row + region[2], col + region[1], k)

\* A region of several rows, off the top, left and right edges of a source
\* of several channels, was cropped.
C4_Witness ==
    /\ Called("cropRegion")
    /\ ValidRegion
    /\ region[1] > 0 /\ region[2] > 0
    /\ region[3] < images[1].width
    /\ region[4] - region[2] >= 2
    /\ images[1].channels >= 2
    /\ ret.status = "ok"

----------------------------------------------------------------------------
(* C5: combineChannels of n >= 1 single-channel planes of one width and    *)
(* height returns an image of that width and height with n channels whose  *)
(* channel k of every pixel is plane k's value at that pixel; so an image  *)
(* split into its planes and recombined in order is the image again.       *)
SamePlanes(list) ==
    \A c \in 1..Len(list) :
        /\ list[c].width = list[1].width
        /\ list[c].height = list[1].height
        /\ list[c].channels = 1

C5_CombineInterleaves ==
    (Called("combineChannels") /\ Len(images) >= 1 /\ SamePlanes(images)) =>
        /\ ret.status = "ok"
        /\ ret.image.width = images[1].width
        /\ ret.image.height = images[1].height
        /\ ret.image.channels = Len(images)
        /\ WellSized(ret.image)
        /\ \A row \in 0..(images[1].height - 1), col \in 0..(images[1].width - 1),
              k \in 0..(Len(images) - 1) :
                At(ret.image, row, col, k) = At(images[k + 1], row, col, 0)
        /\ \A image \in SingleImages :
                images = splitChannels(image) => ret.image = image

\* The planes of an image of several pixels and channels were recombined.
C5_Witness ==
    /\ Called("combineChannels")
    /\ \E image \in SingleImages :
        /\ image.channels >= 2
        /\ image.width * image.height >= 2
        /\ images = splitChannels(image)
    /\ ret.status = "ok"

----------------------------------------------------------------------------
(* Vocabulary of the compare properties.                                   *)

SameShape(a, b) ==
    a.width = b.width /\ a.height = b.height /\ a.channels = b.channels

\* The components at which two same-shaped images are not within eps.
Beyond(a, b, eps) ==
    { i \in 1..Len(a.data) : ~withinEpsilon(a.data[i], b.data[i], eps) }

\* The components at which two same-shaped images differ at all.
Differing(a, b) == { i \in 1..Len(a.data) : a.data[i] # b.data[i] }

----------------------------------------------------------------------------
(* C6: compare of two same-shaped images whose components are pairwise     *)
(* within epsilon (an image and itself, for one) reports equal: returns 0. *)
C6_WithinEpsilonComparesEqual ==
    (/\ Called("compare")
     /\ SameShape(images[1], images[2])
     /\ Beyond(images[1], images[2], epsilon) = {}) =>
        ret.value = 0

----------------------------------------------------------------------------
(* C7: compare of an image and a copy of it in which exactly one component *)
(* differs, by more than epsilon, reports not equal: returns non-zero,     *)
(* whatever the size of the image, a single component included.            *)
C7_OnePerturbedComponentComparesUnequal ==
    (/\ Called("compare")
     /\ SameShape(images[1], images[2])
     /\ Cardinality(Differing(images[1], images[2])) = 1
     /\ Beyond(images[1], images[2], epsilon) = Differing(images[1], images[2])) =>
        ret.value # 0

----------------------------------------------------------------------------
(* C8: compare of images that differ in width, height or channel count     *)
(* returns a not-equal result without reading a component.                 *)
(* As claimed: that result is also what compare returns for same-shaped    *)
(* images with a component beyond the tolerance.                           *)
C8_ShapeMismatchConflated ==
    Called("compare") =>
        /\ ~SameShape(images[1], images[2]) => (ret.value # 0 /\ ret.reads = 0)
        /\ (/\ SameShape(images[1], images[2])
            /\ Beyond(images[1], images[2], epsilon) # {}) =>
                ret.value = ShapeMismatch

(* As amended: the result for a shape mismatch is -1, and same-shaped      *)
(* images compare to 0 or 1 only, after reading at least one component: a  *)
(* shape mismatch can be told apart by the returned value.                 *)
C8_ShapeMismatchDistinct ==
    Called("compare") =>
        /\ ret.status = "ok"
        /\ ~SameShape(images[1], images[2]) =>
                (ret.value = -1 /\ ret.reads = 0)
        /\ SameShape(images[1], images[2]) =>
                (ret.value \in {0, 1} /\ ret.reads >= 1)

\* Images of one width and height and different channel counts were compared.
C8_Witness ==
    /\ Called("compare")
    /\ images[1].width = images[2].width
    /\ images[1].height = images[2].height
    /\ images[1].channels # images[2].channels
    /\ ret.value = -1

----------------------------------------------------------------------------
(* C9: hstack fails with a precondition error exactly when the sequence is *)
(* empty or an input's height or channel count differs from the first      *)
(* input's, and succeeds otherwise; when it fails it returns no image and  *)
(* has allocated no buffer.                                                *)
C9_HstackFailsExactlyOnBadInput ==
    Called("hstack") =>
        /\ ret.status \in {"ok", "panic"}
        /\ ret.status = "panic" <=>
                (Len(images) = 0 \/ ~SameHeightAndChannels(images))
        /\ ret.status = "panic" =>
                (ret.image = NoImage /\ ret.allocs = 0 /\ ret.msg # "")
        /\ ret.status = "ok" => ret.allocs = 1

\* hstack failed on a later input whose channel count alone is off.
C9_Witness ==
    /\ Called("hstack")
    /\ Len(images) = 3
    /\ \A i \in 1..3 : images[i].height = images[1].height
    /\ images[2].channels = images[1].channels
    /\ images[3].channels # images[1].channels
    /\ ret.status = "panic"
    /\ ret.msg = "Inconsistent channels."
    /\ ret.allocs = 0

----------------------------------------------------------------------------
(* C10: vectorsToColors fails, before allocating, on every input whose     *)
(* channel count is not 3; combineChannels fails, before allocating, when  *)
(* any plane, first or later, has a channel count other than 1.            *)
C10_ChannelCountEnforced ==
    /\ (Called("vectorsToColors") /\ images[1].channels # 3) =>
            (ret.status = "panic" /\ ret.allocs = 0 /\ ret.image = NoImage)
    /\ (Called("combineChannels")
            /\ \E c \in 1..Len(images) : images[c].channels # 1) =>
            (ret.status = "panic" /\ ret.allocs = 0 /\ ret.image = NoImage)

\* combineChannels failed on a later plane of the right size that is not
\* single-channel.
C10_Witness ==
    /\ Called("combineChannels")
    /\ Len(images) = 3
    /\ \A c \in 1..3 :
        images[c].width = images[1].width /\ images[c].height = images[1].height
    /\ images[1].channels = 1 /\ images[2].channels = 1
    /\ images[3].channels # 1
    /\ ret.status = "panic"
    /\ ret.msg = "Planes must be single channel."

----------------------------------------------------------------------------
(* C11: hstack, vstack, combineChannels and vectorsToColors report a       *)
(* violated precondition before any buffer, result or intermediate, has    *)
(* been allocated and before any pixel data has been copied; vstack of     *)
(* inputs of differing width or channel count fails before transposing.    *)
C11_FailsBeforeAnyWork ==
    (/\ pc = "returned"
     /\ op \in {"hstack", "vstack", "combineChannels", "vectorsToColors"}
     /\ ret.status = "panic") =>
        (ret.allocs = 0 /\ ret.reads = 0)

----------------------------------------------------------------------------
(* C12: no operation constructs a buffer of zero width, zero height or     *)
(* zero channels: a call that would produce one fails before allocating.   *)
(* cropRegion with left >= right or top >= bottom fails before allocating  *)
(* its result instead of constructing a buffer of the computed size.       *)
DegenerateRegion == region[1] >= region[3] \/ region[2] >= region[4]

C12_NoDegenerateBuffer ==
    pc = "returned" =>
        /\ (ret.status = "ok" /\ op # "compare") =>
                (ret.image.width # 0 /\ ret.image.height # 0
                    /\ ret.image.channels # 0)
        /\ (op = "cropRegion" /\ DegenerateRegion) =>
                (ret.status = "panic" /\ ret.allocs = 0)

----------------------------------------------------------------------------
(* C13: in hstack of n >= 1 images of one height and channel count, every  *)
(* per-row copy reads swidth * channels floats inside its source's storage *)
(* and writes inside the result's storage; the written ranges are disjoint *)
(* and in increasing order, the last one ends at totalWidth * height *     *)
(* channels, and every result element is written exactly once.             *)
C13_HstackCopiesTileResult ==
    (Called("hstack") /\ Len(images) >= 1 /\ SameHeightAndChannels(images)) =>
        LET size == hstackSize(images, 1,
                        [width |-> 0, height |-> 0, nchannels |-> 0, msg |-> ""])
            total == size.width * size.height * size.nchannels
            run == hstackCopy(images, size, 0,
                        LinearImage(size.width, size.height, size.nchannels).data, 0)
            copies == run.copies
        IN /\ ret.status = "ok"
           /\ ret.image.data = run.data
           /\ Len(ret.image.data) = total
           /\ Len(copies) = size.height * Len(images)
           /\ \A i \in 1..Len(copies) :
                /\ copies[i].n = images[copies[i].image].width * size.nchannels
                /\ copies[i].src >= 0
                /\ copies[i].src + copies[i].n <= Len(images[copies[i].image].data)
                /\ copies[i].dst >= 0
                /\ copies[i].dst + copies[i].n <= total
           /\ \A i \in 1..Len(copies), j \in 1..Len(copies) :
                i < j => copies[i].dst + copies[i].n <= copies[j].dst
           /\ run.dst = total
           /\ \A t \in 1..total :
                Cardinality({ i \in 1..Len(copies) :
                    copies[i].dst < t /\ t <= copies[i].dst + copies[i].n }) = 1

\* Three images of different widths, two rows and two channels were stacked:
\* six copies of several floats each.
C13_Witness ==
    /\ Called("hstack")
    /\ Len(images) = 3
    /\ SameHeightAndChannels(images)
    /\ images[1].height = 2 /\ images[1].channels = 2
    /\ images[1].width # images[2].width
    /\ images[2].width = 2
    /\ ret.status = "ok"
    /\ Len(ret.image.data) >= 12

====
